---- MODULE Spec2Model ----
(***************************************************************************)
(* eslint-plugin-tailwind-canonical-classes: the rule                      *)
(* lib/tailwind-canonical-classes.js as a state machine.                   *)
(*                                                                         *)
(* Strings of the linted source are sequences of one-character strings.    *)
(* A file-system path is the sequence of its segments, i.e. the string     *)
(* split on "/": /p/g.css is <<"", "p", "g.css">>, ./g.css is              *)
(* <<".", "g.css">>, the empty string is <<"">>.  JavaScript's null and    *)
(* undefined are Null.                                                     *)
(***************************************************************************)
EXTENDS Integers, Sequences, FiniteSets, TLC

VARIABLES
    designSystemCache,    \* module variable, line 6: Null or a design-system handle
    designSystemPromise,  \* module variable, line 7: 0 (null) or the index of a promise
    designSystemError,    \* module variable, line 8: Null or an error
    cssPathCache,         \* module variable, line 9: Null or the cssPath of the last lookup
    promises,             \* the promises __unstable__loadDesignSystem has returned so far
    fs,                   \* the stylesheet files that exist on disk
    ctx,                  \* the rule context of the file being linted, as create() left it
    node,                 \* the JSXAttribute node most recently handed to the visitor
    reports,              \* the context.report calls of the last create()/visitor call
    designSystem,         \* line 239: what getDesignSystemSync returned to the last visit
    resolvedPath,         \* line 64: what resolveCssPath returned to the last visit
    called,               \* the tokens the last visit handed to canonicalizeCandidates
    loads,                \* loader invocations since cssPathCache last changed
    op                    \* the operation that produced this state

vars == <<designSystemCache, designSystemPromise, designSystemError, cssPathCache,
          promises, fs, ctx, node, reports, designSystem, resolvedPath, called,
          loads, op>>

cacheVars == <<designSystemCache, designSystemPromise, designSystemError, cssPathCache>>

\* ------------------------------------------------------------------ bounds
\* Longest className value (in characters) of the attributes checked.
MaxLen == 4
\* Loader invocations in one run of the lint process.
MaxLoads == 2

\* --------------------------------------------------------------- constants
\* The default of the rootFontSize option.
DefaultRootFontSize == 16

Null == <<>>

\* ------------------------------------------------------------ JS strings
\* Characters are written by name: "sp" is a space, "nl" a line feed, "dq" a
\* double quote, "sq" a single quote, "bt" a backtick; "a" and "b" are the
\* characters class names are made of.
WhiteSpace == {"sp", "nl"}
LineTerminators == {"nl"}
Quotes == {"dq", "sq", "bt"}
ClassChars == {"a", "b"}

\* String.prototype.trim
RECURSIVE trimStart(_)
trimStart(s) ==
    IF s # <<>> /\ Head(s) \in WhiteSpace THEN trimStart(Tail(s)) ELSE s

RECURSIVE trimEnd(_)
trimEnd(s) ==
    IF s # <<>> /\ s[Len(s)] \in WhiteSpace
    THEN trimEnd(SubSeq(s, 1, Len(s) - 1)) ELSE s

trim(s) == trimEnd(trimStart(s))

\* String.prototype.split(/\s+/): the pieces between maximal runs of white
\* space, empty first and last pieces included.
RECURSIVE splitFrom(_, _)
splitFrom(s, cur) ==
    IF s = <<>> THEN <<cur>>
    ELSE IF Head(s) \in WhiteSpace
         THEN <<cur>> \o splitFrom(trimStart(s), <<>>)
         ELSE splitFrom(Tail(s), Append(cur, Head(s)))

split(s) == splitFrom(s, <<>>)

\* Array.prototype.filter((cls) => cls.trim().length > 0)
RECURSIVE filterNonEmpty(_)
filterNonEmpty(ss) ==
    IF ss = <<>> THEN <<>>
    ELSE IF Len(trim(Head(ss))) > 0
         THEN <<Head(ss)>> \o filterNonEmpty(Tail(ss))
         ELSE filterNonEmpty(Tail(ss))

\* Array.prototype.join with a single space as separator
RECURSIVE join(_)
join(ss) ==
    IF ss = <<>> THEN <<>>
    ELSE IF Len(ss) = 1 THEN Head(ss)
         ELSE Head(ss) \o <<"sp">> \o join(Tail(ss))

\* -------------------------------------------------------------- node:path
\* path.isAbsolute (POSIX): the string starts with "/".
isAbsolute(p) == Len(p) >= 2 /\ p[1] = ""

\* path.dirname
dirname(p) == SubSeq(p, 1, Len(p) - 1)

\* path.resolve(base, rel) for an absolute base: the segments of rel are
\* appended, "." dropped and ".." popping one segment.
RECURSIVE resolveOnto(_, _)
resolveOnto(base, rel) ==
    IF rel = <<>> THEN base
    ELSE IF Head(rel) \in {".", ""} THEN resolveOnto(base, Tail(rel))
    ELSE IF Head(rel) = ".."
         THEN resolveOnto(IF Len(base) > 1 THEN dirname(base) ELSE base, Tail(rel))
         ELSE resolveOnto(Append(base, Head(rel)), Tail(rel))

pathResolve(base, rel) ==
    IF isAbsolute(rel) THEN resolveOnto(<<"">>, Tail(rel)) ELSE resolveOnto(base, rel)

\* process.cwd(): the project root, where the ESLint configuration is.
Cwd == <<"", "p">>

\* The files being linted.
Filenames == {<<"", "p", "a", "x.jsx">>, <<"", "p", "b", "y.jsx">>}

\* The stylesheets that may exist on disk while the cache goes through its
\* states: /p/g.css in the project root and /p/a/g.css next to x.jsx.
Stylesheets == {<<"", "p", "g.css">>, <<"", "p", "a", "g.css">>}

\* The options objects of the configurations linted with while the cache
\* goes through its states: no cssPath, an empty cssPath, the relative
\* ./g.css and the absolute /p/g.css.  rootFontSize 0 stands for an absent
\* option.
Options ==
    {[cssPath |-> Null, rootFontSize |-> 0],
     [cssPath |-> <<"">>, rootFontSize |-> 10],
     [cssPath |-> <<".", "g.css">>, rootFontSize |-> 0],
     [cssPath |-> <<"", "p", "g.css">>, rootFontSize |-> 0]}

\* fs.existsSync
existsSync(files, p) == p \in files

\* ------------------------------------------------------- the module state
\* JavaScript truthiness of a string-or-null value.
falsy(x) == x = Null \/ x = <<"">>

\* The four module variables (lines 6-9) as one record, with the promises the
\* loader has returned and the count of loader invocations since the last
\* change of cssPathCache.
moduleState ==
    [designSystemCache |-> designSystemCache,
     designSystemPromise |-> designSystemPromise,
     designSystemError |-> designSystemError,
     cssPathCache |-> cssPathCache,
     promises |-> promises,
     loads |-> loads]

\* Lines 11-39.
resolveCssPath(cssPath, filename, files) ==
    IF falsy(cssPath) THEN Null
    ELSE IF isAbsolute(cssPath) THEN cssPath
    ELSE LET fileDir == dirname(filename)
             relativeToFile == pathResolve(fileDir, cssPath)
             relativeToCwd == pathResolve(Cwd, cssPath)
         IN IF existsSync(files, relativeToFile) THEN relativeToFile
            ELSE IF existsSync(files, relativeToCwd) THEN relativeToCwd
            ELSE relativeToCwd

\* The reset of lines 43-48 without the assignment of line 44: the handle
\* cached for the previous cssPath survives the change of path.
resetIfChangedKeepingCache(m, cssPath) ==
    IF m.cssPathCache # cssPath
    THEN [m EXCEPT !.designSystemPromise = 0,
                   !.designSystemError = Null,
                   !.cssPathCache = cssPath,
                   !.loads = 0]
    ELSE m

\* Lines 43-48 and 95-100: the reset on a changed cssPath.
resetIfChanged(m, cssPath) ==
    IF m.cssPathCache # cssPath
    THEN [m EXCEPT !.designSystemCache = Null,
                   !.designSystemPromise = 0,
                   !.designSystemError = Null,
                   !.cssPathCache = cssPath,
                   !.loads = 0]
    ELSE m

\* Lines 62-88: the load.  readThrows: fs.readFileSync (or the loader, called
\* synchronously) throws.  Yields the module state and the resolved path.
startLoad(m, cssPath, filename, files, readThrows) ==
    LET rp == resolveCssPath(cssPath, filename, files)
    IN IF rp = Null \/ ~existsSync(files, rp)
       THEN [m |-> [m EXCEPT !.designSystemError = <<"CSS file not found">> \o cssPath],
             resolvedPath |-> rp]
       ELSE IF readThrows
       THEN [m |-> [m EXCEPT !.designSystemError = <<"read failed">> \o rp],
             resolvedPath |-> rp]
       ELSE [m |-> [m EXCEPT !.promises = Append(@, [from |-> rp, state |-> "pending"]),
                             !.designSystemPromise = Len(m.promises) + 1,
                             !.loads = @ + 1],
             resolvedPath |-> rp]

\* getDesignSystemSync without the test of designSystemPromise (lines 58-62):
\* a lookup made while a load is pending starts another load.
getDesignSystemSyncNoPendingTest(m0, cssPath, filename, files, readThrows) ==
    LET m == resetIfChanged(m0, cssPath)
    IN IF m.designSystemCache # Null
       THEN [m |-> m, ret |-> m.designSystemCache, resolvedPath |-> Null]
       ELSE IF m.designSystemError # Null
       THEN [m |-> m, ret |-> Null, resolvedPath |-> Null]
       ELSE LET l == startLoad(m, cssPath, filename, files, readThrows)
            IN [m |-> l.m, ret |-> Null, resolvedPath |-> l.resolvedPath]

\* Lines 41-91.  Yields the module state after the call, the value returned
\* and the path resolved (Null when the call resolved none).
getDesignSystemSync(m0, cssPath, filename, files, readThrows) ==
    LET m == resetIfChanged(m0, cssPath)
    IN IF m.designSystemCache # Null
       THEN [m |-> m, ret |-> m.designSystemCache, resolvedPath |-> Null]
       ELSE IF m.designSystemError # Null
       THEN [m |-> m, ret |-> Null, resolvedPath |-> Null]
       ELSE IF m.designSystemPromise # 0 /\ m.designSystemCache = Null
       THEN [m |-> m, ret |-> Null, resolvedPath |-> Null]
       ELSE IF m.designSystemPromise = 0
       THEN LET l == startLoad(m, cssPath, filename, files, readThrows)
            IN [m |-> l.m, ret |-> Null, resolvedPath |-> l.resolvedPath]
       ELSE [m |-> m, ret |-> Null, resolvedPath |-> Null]

\* Lines 93-124, up to the await.  Yields the module state after the call,
\* the promise the call awaits (0 when it returns without awaiting) and the
\* value it returns when it does not await.
getDesignSystemAsync(m0, cssPath, filename, files, readThrows) ==
    LET m == resetIfChanged(m0, cssPath)
    IN IF m.designSystemCache # Null
       THEN [m |-> m, awaits |-> 0, ret |-> m.designSystemCache]
       ELSE IF m.designSystemError # Null
       THEN [m |-> m, awaits |-> 0, ret |-> Null]
       ELSE LET m2 == IF m.designSystemPromise = 0
                      THEN getDesignSystemSync(m, cssPath, filename, files, readThrows).m
                      ELSE m
            IN [m |-> m2, awaits |-> m2.designSystemPromise, ret |-> Null]

\* ------------------------------------------------------------ the AST
\* node.value of a JSXAttribute: absent, a Literal, a TemplateLiteral, a
\* JSXExpressionContainer around an expression, or another expression.
NoValue == [type |-> "None"]
StringLiteral(q, v) ==
    [type |-> "Literal", typeofValue |-> "string", value |-> v, raw |-> <<q>> \o v \o <<q>>]
NumberLiteral == [type |-> "Literal", typeofValue |-> "number", raw |-> <<"5">>]
TemplateLiteral(quasis, expressions) ==
    [type |-> "TemplateLiteral", quasis |-> quasis, expressions |-> expressions]
JSXExpressionContainer(e) == [type |-> "JSXExpressionContainer", expression |-> e]
Identifier == [type |-> "Identifier", raw |-> <<"x">>]
JSXAttributeNode(name, value) == [name |-> name, value |-> value]

\* sourceCode.getText(node): the source text of a value node.
RECURSIVE templateText(_, _)
templateText(quasis, expressions) ==
    IF expressions = <<>> THEN Head(quasis)
    ELSE Head(quasis) \o <<"$", "{">> \o <<Head(expressions)>> \o <<"}">>
         \o templateText(Tail(quasis), Tail(expressions))

RECURSIVE getText(_)
getText(v) ==
    IF v.type = "TemplateLiteral"
    THEN <<"bt">> \o templateText(v.quasis, v.expressions) \o <<"bt">>
    ELSE IF v.type = "JSXExpressionContainer"
    THEN <<"{">> \o getText(v.expression) \o <<"}">>
    ELSE IF v.type = "None" THEN <<>>
    ELSE v.raw

\* Lines 143-149: the trimmed, non-empty cooked quasis.
RECURSIVE quasiParts(_)
quasiParts(quasis) ==
    IF quasis = <<>> THEN <<>>
    ELSE IF trim(Head(quasis)) # <<>>
         THEN <<trim(Head(quasis))>> \o quasiParts(Tail(quasis))
         ELSE quasiParts(Tail(quasis))

RECURSIVE extractClassNames(_)

\* extractClassNames without the test of the expressions (lines 139-141): the
\* static parts of a template literal with interpolations are extracted.
extractClassNamesOfAnyTemplate(classNameValue) ==
    IF classNameValue.type = "None" THEN <<>>
    ELSE IF classNameValue.type = "Literal" /\ classNameValue.typeofValue = "string"
    THEN filterNonEmpty(split(classNameValue.value))
    ELSE IF classNameValue.type = "TemplateLiteral"
    THEN filterNonEmpty(split(join(quasiParts(classNameValue.quasis))))
    ELSE IF classNameValue.type = "JSXExpressionContainer"
    THEN extractClassNames(classNameValue.expression)
    ELSE <<>>

\* Lines 126-160.
extractClassNames(classNameValue) ==
    IF classNameValue.type = "None" THEN <<>>
    ELSE IF classNameValue.type = "Literal" /\ classNameValue.typeofValue = "string"
    THEN filterNonEmpty(split(classNameValue.value))
    ELSE IF classNameValue.type = "TemplateLiteral"
    THEN IF Len(classNameValue.expressions) > 0 THEN <<>>
         ELSE filterNonEmpty(split(join(quasiParts(classNameValue.quasis))))
    ELSE IF classNameValue.type = "JSXExpressionContainer"
    THEN extractClassNames(classNameValue.expression)
    ELSE <<>>

\* ------------------------------------------------- the external library
\* The handle the loader resolves with is named by the stylesheet it was
\* loaded from.
designSystemOf(stylesheet) == stylesheet

\* Line 246: whether the handle exposes canonicalizeCandidates.  The design
\* system of /p/t.css stands for one without that function.
hasCanonicalizeCandidates(ds) == ds # <<"", "p", "t.css">>

\* The tokens canonicalizeCandidates throws on: those starting with "ba".
canonicalizeThrows(className) ==
    Len(className) >= 2 /\ className[1] = "b" /\ className[2] = "a"

\* Lines 275-277: designSystem.canonicalizeCandidates([className], {rem})[0],
\* a deterministic function of the handle, the token and rem.  The design
\* system of /p/g.css writes every "b" as "a" at rem 16 and rewrites only the
\* token "b" (to "aa") at another rem; that of /p/a/g.css rewrites only the
\* token "ab" (to "a").  Every other token is returned unchanged.
canonicalizeCandidate(ds, className, rem) ==
    IF ds = <<"", "p", "g.css">>
    THEN IF rem = DefaultRootFontSize
         THEN [i \in 1..Len(className) |-> "a"]
         ELSE IF className = <<"b">> THEN <<"a", "a">> ELSE className
    ELSE IF className = <<"a", "b">> THEN <<"a">> ELSE className

\* ------------------------------------------------------- processClasses
\* The loop of lines 271-289 with a catch that leaves the loop instead of
\* going on: the tokens after a throwing one are not looked at.
RECURSIVE collectIssuesUntilThrow(_, _, _, _)
collectIssuesUntilThrow(ds, classNames, i, rem) ==
    IF i > Len(classNames) THEN [issues |-> <<>>, called |-> <<>>]
    ELSE LET className == classNames[i]
             rest == collectIssuesUntilThrow(ds, classNames, i + 1, rem)
             canonicalized == canonicalizeCandidate(ds, className, rem)
         IN IF canonicalizeThrows(className)
            THEN [issues |-> <<>>, called |-> <<className>>]
            ELSE IF canonicalized # className
            THEN [issues |-> <<[original |-> className, canonical |-> canonicalized,
                                index |-> i]>> \o rest.issues,
                  called |-> <<className>> \o rest.called]
            ELSE [rest EXCEPT !.called = <<className>> \o @]

\* Lines 271-289: the loop over the tokens.  Yields the issues, in token
\* order, and the tokens handed to canonicalizeCandidates.  A token the call
\* throws on is skipped by the catch and the loop goes on.
RECURSIVE collectIssues(_, _, _, _)
collectIssues(ds, classNames, i, rem) ==
    IF i > Len(classNames) THEN [issues |-> <<>>, called |-> <<>>]
    ELSE LET className == classNames[i]
             rest == collectIssues(ds, classNames, i + 1, rem)
             canonicalized == canonicalizeCandidate(ds, className, rem)
         IN IF canonicalizeThrows(className)
            THEN [rest EXCEPT !.called = <<className>> \o @]
            ELSE IF canonicalized # className
            THEN [issues |-> <<[original |-> className, canonical |-> canonicalized,
                                index |-> i]>> \o rest.issues,
                  called |-> <<className>> \o rest.called]
            ELSE [rest EXCEPT !.called = <<className>> \o @]

\* Lines 294-297: canonicalMap.get(className); a later issue overwrites an
\* earlier one with the same original.  Null when the map has no entry.
RECURSIVE canonicalMapGet(_, _)
canonicalMapGet(issues, className) ==
    IF issues = <<>> THEN Null
    ELSE IF issues[Len(issues)].original = className
         THEN issues[Len(issues)].canonical
         ELSE canonicalMapGet(SubSeq(issues, 1, Len(issues) - 1), className)

\* Lines 299-301 mapping over the issues instead of the tokens: the tokens
\* that need no rewrite are dropped from the fix.
fixedClassNamesOfIssues(issues, classNames) ==
    [i \in 1..Len(issues) |-> issues[i].canonical]

\* Lines 299-301 with a canonicalMap that holds the first issue only: the
\* other tokens reported stay as they are in the fix.
fixedClassNamesOfFirstIssue(issues, classNames) ==
    [i \in 1..Len(classNames) |->
        IF issues # <<>> /\ classNames[i] = issues[1].original
        THEN issues[1].canonical ELSE classNames[i]]

\* Lines 299-301.
fixedClassNamesOf(issues, classNames) ==
    [i \in 1..Len(classNames) |->
        LET c == canonicalMapGet(issues, classNames[i])
        IN IF falsy(c) THEN classNames[i] ELSE c]

\* Line 306: the match of originalText against the pattern "a quote, any
\* characters but line terminators, the same quote", anchored at both ends:
\* the quote matched, or "" when the text does not match.
quoteMatch(originalText) ==
    IF /\ Len(originalText) >= 2
       /\ originalText[1] \in Quotes
       /\ originalText[Len(originalText)] = originalText[1]
       /\ \A i \in 2..(Len(originalText) - 1) : originalText[i] \notin LineTerminators
    THEN originalText[1]
    ELSE ""

\* Lines 304-325 without the fallback of lines 313-321: a string literal the
\* pattern does not match is replaced by the bare class string.
fixedTextOfWithoutFallback(originalText, classNameValue, fixedClassString) ==
    IF quoteMatch(originalText) # ""
    THEN <<quoteMatch(originalText)>> \o fixedClassString \o <<quoteMatch(originalText)>>
    ELSE IF classNameValue.type = "TemplateLiteral"
    THEN <<"bt">> \o fixedClassString \o <<"bt">>
    ELSE fixedClassString

\* Lines 304-325.
fixedTextOf(originalText, classNameValue, fixedClassString) ==
    IF quoteMatch(originalText) # ""
    THEN <<quoteMatch(originalText)>> \o fixedClassString \o <<quoteMatch(originalText)>>
    ELSE IF classNameValue.type = "TemplateLiteral"
    THEN <<"bt">> \o fixedClassString \o <<"bt">>
    ELSE IF originalText # <<>> /\ originalText[1] \in Quotes
    THEN LET quote == originalText[1]
         IN IF \E i \in 2..Len(originalText) : originalText[i] = quote
            THEN <<quote>> \o fixedClassString \o <<quote>>
            ELSE fixedClassString
    ELSE fixedClassString

\* Lines 327-340 without the loop of lines 342-351: only the first issue is
\* reported.
reportsOfFirstIssue(issues, originalText, fixedText) ==
    <<[messageId |-> "nonCanonical",
       original |-> issues[1].original,
       canonical |-> issues[1].canonical,
       hasFix |-> TRUE,
       fixText |-> IF fixedText # originalText THEN fixedText ELSE Null]>>

\* Lines 327-351: one report per issue, the first with the fix.
reportsOf(issues, originalText, fixedText) ==
    [i \in 1..Len(issues) |->
        [messageId |-> "nonCanonical",
         original |-> issues[i].original,
         canonical |-> issues[i].canonical,
         hasFix |-> (i = 1),
         fixText |-> IF i = 1 /\ fixedText # originalText THEN fixedText ELSE Null]]

\* Lines 261-353.  Yields the reports made and the tokens handed to
\* canonicalizeCandidates.
processClasses(ds, classNames, classNameValue, rootFontSize) ==
    LET loop == collectIssues(ds, classNames, 1, rootFontSize)
        issues == loop.issues
        originalText == getText(classNameValue)
        fixedClassString == join(fixedClassNamesOf(issues, classNames))
        fixedText == fixedTextOf(originalText, classNameValue, fixedClassString)
    IN [reports |-> IF Len(issues) > 0
                    THEN reportsOf(issues, originalText, fixedText) ELSE <<>>,
        called |-> loop.called]

\* ------------------------------------------------------------- the rule
\* The report of a missing cssPath, lines 202-206.
CssNotFoundReport ==
    [messageId |-> "cssNotFound", loc |-> <<1, 0>>, path |-> "not specified"]

\* create without the return of line 207: the visitor is registered although
\* the cssPath is missing.
createWithoutReturn(options, filename) ==
    [ctx |-> [cssPath |-> options.cssPath,
              rootFontSize |-> IF options.rootFontSize = 0 THEN DefaultRootFontSize
                               ELSE options.rootFontSize,
              filename |-> filename, visitor |-> TRUE],
     reports |-> IF falsy(options.cssPath) THEN <<CssNotFoundReport>> ELSE <<>>]

\* Lines 195-208.  Yields the context the visitor closes over, whether a
\* JSXAttribute visitor is returned, and the reports made.
create(options, filename) ==
    LET cssPath == options.cssPath
        rootFontSize == IF options.rootFontSize = 0 THEN DefaultRootFontSize
                        ELSE options.rootFontSize
    IN IF falsy(cssPath)
       THEN [ctx |-> [cssPath |-> cssPath, rootFontSize |-> rootFontSize,
                      filename |-> filename, visitor |-> FALSE],
             reports |-> <<CssNotFoundReport>>]
       ELSE [ctx |-> [cssPath |-> cssPath, rootFontSize |-> rootFontSize,
                      filename |-> filename, visitor |-> TRUE],
             reports |-> <<>>]

\* What a visit that returns early leaves behind.
noResult(m) ==
    [m |-> m, reports |-> <<>>, designSystem |-> Null, resolvedPath |-> Null,
     called |-> <<>>]

\* Lines 221-224: the value with one JSXExpressionContainer unwrapped.
classNameValueOf(value) ==
    IF value.type = "JSXExpressionContainer" THEN value.expression ELSE value

\* Lines 211-256: the JSXAttribute visitor.
visitJSXAttribute(m, c, n, files, readThrows) ==
    IF n.name # "className" THEN noResult(m)
    ELSE IF n.value.type = "None" THEN noResult(m)
    ELSE LET classNameValue == classNameValueOf(n.value)
             classNames == extractClassNames(classNameValue)
             sync == getDesignSystemSync(m, c.cssPath, c.filename, files, readThrows)
             async == getDesignSystemAsync(sync.m, c.cssPath, c.filename, files, readThrows)
         IN IF classNameValue.type \notin {"Literal", "TemplateLiteral",
                                           "JSXExpressionContainer"}
            THEN noResult(m)
            ELSE IF Len(classNames) = 0 THEN noResult(m)
            ELSE IF sync.ret = Null
            THEN [m |-> async.m, reports |-> <<>>, designSystem |-> Null,
                  resolvedPath |-> sync.resolvedPath, called |-> <<>>]
            ELSE IF hasCanonicalizeCandidates(sync.ret)
            THEN LET r == processClasses(sync.ret, classNames, classNameValue,
                                         c.rootFontSize)
                 IN [m |-> sync.m, reports |-> r.reports, designSystem |-> sync.ret,
                     resolvedPath |-> sync.resolvedPath, called |-> r.called]
            ELSE [m |-> sync.m, reports |-> <<>>, designSystem |-> sync.ret,
                  resolvedPath |-> sync.resolvedPath, called |-> <<>>]

\* ------------------------------------------------------------ the inputs
\* The characters of a className value.
ValueChars == ClassChars \cup WhiteSpace

\* The strings of at most n characters.
StringsUpTo(n) == UNION {[1..k -> ValueChars] : k \in 0..n}

noLineTerminator(v) == \A i \in 1..Len(v) : v[i] \notin LineTerminators

\* The className attributes with a static value of at most MaxLen characters:
\* a string in double or single quotes as the attribute value (it may span
\* lines), the same inside braces (on one line, as JavaScript requires), and
\* a template literal without expressions inside braces.
StaticAttributes ==
    {JSXAttributeNode("className", StringLiteral(q, v)) :
        q \in {"dq", "sq"}, v \in StringsUpTo(MaxLen)}
    \cup {JSXAttributeNode("className", JSXExpressionContainer(StringLiteral(q, v))) :
        q \in {"dq", "sq"}, v \in {w \in StringsUpTo(MaxLen) : noLineTerminator(w)}}
    \cup {JSXAttributeNode("className",
                           JSXExpressionContainer(TemplateLiteral(<<v>>, <<>>))) :
        v \in StringsUpTo(MaxLen)}

\* Attributes the rule has nothing to rewrite in: a template literal with an
\* interpolated expression, an identifier, a number, no value at all, and an
\* attribute other than className.
DynamicAttributes ==
    {JSXAttributeNode("className",
                      JSXExpressionContainer(TemplateLiteral(<<<<"b", "sp">>, <<"sp", "b">>>>,
                                                             <<"x">>))),
     JSXAttributeNode("className", JSXExpressionContainer(Identifier)),
     JSXAttributeNode("className", JSXExpressionContainer(NumberLiteral)),
     JSXAttributeNode("className", NoValue),
     JSXAttributeNode("id", StringLiteral("dq", <<"b">>))}

\* The attributes linted while the cache goes through its states: a static
\* one and three dynamic ones.
SampleAttributes ==
    {JSXAttributeNode("className", StringLiteral("dq", <<"b", "sp", "a", "b">>)),
     JSXAttributeNode("className",
                      JSXExpressionContainer(TemplateLiteral(<<<<"b", "sp">>, <<"sp", "b">>>>,
                                                             <<"x">>))),
     JSXAttributeNode("className", JSXExpressionContainer(Identifier)),
     JSXAttributeNode("className", JSXExpressionContainer(NumberLiteral))}

\* No attribute visited yet.
NoAttribute == JSXAttributeNode("", NoValue)

\* -------------------------------------------------------------- actions
Init ==
    /\ designSystemCache = Null
    /\ designSystemPromise = 0
    /\ designSystemError = Null
    /\ cssPathCache = Null
    /\ promises = <<>>
    /\ fs \in SUBSET Stylesheets
    /\ ctx = [cssPath |-> Null, rootFontSize |-> DefaultRootFontSize,
              filename |-> Null, visitor |-> FALSE]
    /\ node = NoAttribute
    /\ reports = <<>>
    /\ designSystem = Null
    /\ resolvedPath = Null
    /\ called = <<>>
    /\ loads = 0
    /\ op = "init"

\* ESLint starts linting a file: create(context) runs with the options of the
\* configuration that applies to the file.
Create(options, filename) ==
    LET c == create(options, filename)
    IN /\ ctx' = c.ctx
       /\ reports' = c.reports
       /\ node' = NoAttribute
       /\ designSystem' = Null
       /\ resolvedPath' = Null
       /\ called' = <<>>
       /\ op' = "create"
       /\ UNCHANGED <<cacheVars, promises, fs, loads>>

\* The state a visit leaves: the module variables and what the visit made.
leave(r) ==
    /\ designSystemCache' = r.m.designSystemCache
    /\ designSystemPromise' = r.m.designSystemPromise
    /\ designSystemError' = r.m.designSystemError
    /\ cssPathCache' = r.m.cssPathCache
    /\ promises' = r.m.promises
    /\ loads' = r.m.loads
    /\ reports' = r.reports
    /\ designSystem' = r.designSystem
    /\ resolvedPath' = r.resolvedPath
    /\ called' = r.called

\* The traversal reaches a JSXAttribute n of the file and calls the visitor.
JSXAttribute(n, readThrows) ==
    /\ ctx.visitor
    /\ node' = n
    /\ \E r \in {visitJSXAttribute(moduleState, ctx, n, fs, readThrows)} :
          Len(r.m.promises) <= MaxLoads /\ leave(r)
    /\ op' = "JSXAttribute"
    /\ UNCHANGED <<fs, ctx>>

\* Lines 76-79: the loader's promise i is fulfilled and the then-callback runs.
LoadFulfilled(i) ==
    /\ i \in 1..Len(promises)
    /\ promises[i].state = "pending"
    /\ promises' = [promises EXCEPT ![i].state = "fulfilled"]
    /\ designSystemCache' = designSystemOf(promises[i].from)
    /\ reports' = <<>>
    /\ designSystem' = Null
    /\ resolvedPath' = Null
    /\ called' = <<>>
    /\ node' = NoAttribute
    /\ op' = "fulfilled"
    /\ UNCHANGED <<designSystemPromise, designSystemError, cssPathCache, fs, ctx, loads>>

\* Lines 80-83: the loader's promise i is rejected and the catch-callback runs.
LoadRejected(i) ==
    /\ i \in 1..Len(promises)
    /\ promises[i].state = "pending"
    /\ promises' = [promises EXCEPT ![i].state = "rejected"]
    /\ designSystemError' = <<"load failed">> \o promises[i].from
    /\ reports' = <<>>
    /\ designSystem' = Null
    /\ resolvedPath' = Null
    /\ called' = <<>>
    /\ node' = NoAttribute
    /\ op' = "rejected"
    /\ UNCHANGED <<designSystemCache, designSystemPromise, cssPathCache, fs, ctx, loads>>

Next ==
    \/ \E options \in Options, filename \in Filenames : Create(options, filename)
    \/ \E n \in SampleAttributes, readThrows \in BOOLEAN : JSXAttribute(n, readThrows)
    \/ \E i \in 1..MaxLoads : LoadFulfilled(i)
    \/ \E i \in 1..MaxLoads : LoadRejected(i)

Spec == Init /\ [][Next]_vars

\* Line 336, fixer.replaceText(classNameValue, fixedText), and the parse of
\* the file that follows: the attribute whose value reads fixedText.  A text
\* in double or single quotes is a string literal, a text in backticks a
\* template literal without expressions; braces around the value stay.
applyFix(n, fixedText) ==
    LET inner == SubSeq(fixedText, 2, Len(fixedText) - 1)
        fixedValue ==
            IF Len(fixedText) >= 2 /\ fixedText[1] = "bt" /\ fixedText[Len(fixedText)] = "bt"
            THEN TemplateLiteral(<<inner>>, <<>>)
            ELSE IF /\ Len(fixedText) >= 2
                    /\ fixedText[1] \in {"dq", "sq"}
                    /\ fixedText[Len(fixedText)] = fixedText[1]
            THEN StringLiteral(fixedText[1], inner)
            ELSE Identifier
    IN JSXAttributeNode(n.name,
           IF n.value.type = "JSXExpressionContainer"
           THEN JSXExpressionContainer(fixedValue) ELSE fixedValue)

\* The fix of the first report (lines 335-340) is applied to the attribute
\* just visited and the file is linted again under the same configuration:
\* the visitor is called on the fixed attribute.
ApplyFix ==
    /\ ctx.visitor
    /\ op = "JSXAttribute"
    /\ reports # <<>>
    /\ reports[1].fixText # Null
    /\ node' = applyFix(node, reports[1].fixText)
    /\ \E r \in {visitJSXAttribute(moduleState, ctx,
                                   applyFix(node, reports[1].fixText), fs, FALSE)} :
          leave(r)
    /\ op' = "fixed"
    /\ UNCHANGED <<fs, ctx>>

\* ------------------------------------------- linting with a loaded cache
\* The stylesheet of a design system without canonicalizeCandidates.
PlainStylesheet == <<"", "p", "t.css">>

\* The options of the configurations linted with once the design system is
\* loaded: ./g.css or /p/t.css, with and without a rootFontSize.
ClassesOptions ==
    {[cssPath |-> c, rootFontSize |-> r] :
        c \in {<<".", "g.css">>, PlainStylesheet}, r \in {0, 10}}

\* The attributes linted once the design system is loaded.
ClassesAttributes == StaticAttributes \cup DynamicAttributes

\* The state after a file of a configuration has been linted, the load its
\* first className started has been fulfilled, and create() has run for the
\* next file.
InitClasses ==
    /\ fs = Stylesheets \cup {PlainStylesheet}
    /\ \E options \in ClassesOptions, filename \in Filenames :
          /\ ctx = create(options, filename).ctx
          /\ designSystemCache
                = designSystemOf(resolveCssPath(options.cssPath, filename, fs))
          /\ promises = <<[from |-> resolveCssPath(options.cssPath, filename, fs),
                           state |-> "fulfilled"]>>
          /\ cssPathCache = options.cssPath
    /\ designSystemPromise = 1
    /\ designSystemError = Null
    /\ node = NoAttribute
    /\ reports = <<>>
    /\ designSystem = Null
    /\ resolvedPath = Null
    /\ called = <<>>
    /\ loads = 1
    /\ op = "create"

\* Files with one attribute each, all under the configuration whose design
\* system is loaded.
NextClasses ==
    \/ \E n \in ClassesAttributes : node = NoAttribute /\ JSXAttribute(n, FALSE)
    \/ ApplyFix
    \/ \E options \in ClassesOptions, filename \in Filenames :
          /\ node # NoAttribute
          /\ options.cssPath = ctx.cssPath
          /\ Create(options, filename)

SpecClasses == InitClasses /\ [][NextClasses]_vars

\* ===================================================================
\* The claims
\* ===================================================================

\* A step of the JSXAttribute visitor is a step that ends with op' =
\* "JSXAttribute"; an action formula [A]_vars leaves stuttering steps alone.

\* The attribute visited has a className value the rule extracts tokens from.
staticClassName(n) ==
    /\ n.name = "className"
    /\ classNameValueOf(n.value).type \in {"Literal", "TemplateLiteral"}
    /\ Len(extractClassNames(classNameValueOf(n.value))) > 0

\* C1: a load failure is terminal.  Once designSystemError is set for the
\* configured cssPath, every later visit with that cssPath gets null from
\* getDesignSystemSync, starts no load and makes no report.
C1_FailureIsTerminal ==
    [][(/\ designSystemError # Null
        /\ cssPathCache = ctx.cssPath
        /\ op' = "JSXAttribute")
       => (/\ designSystem' = Null
           /\ reports' = <<>>
           /\ promises' = promises)]_vars

\* C2: the memoized handle is keyed by the resolved stylesheet path.  A handle
\* a visit gets from getDesignSystemSync was loaded from the stylesheet that
\* resolveCssPath yields for the cssPath and the file of that visit.
C2_HandleOfResolvedStylesheet ==
    (op = "JSXAttribute" /\ designSystem # Null)
    => designSystem = designSystemOf(resolveCssPath(ctx.cssPath, ctx.filename, fs))

\* C9: a relative cssPath is resolved against the project root, whatever the
\* directory of the linted file; an absolute cssPath is returned unchanged.
C9_ResolvedAgainstProjectRoot ==
    resolvedPath # Null
    => resolvedPath = IF isAbsolute(ctx.cssPath) THEN ctx.cssPath
                      ELSE pathResolve(Cwd, ctx.cssPath)

\* The attribute visited has a dynamic className value: a template literal
\* with an interpolated expression, or an expression that is neither a string
\* literal nor a template literal.
dynamicClassName(n) ==
    /\ n.name = "className"
    /\ n.value.type = "JSXExpressionContainer"
    /\ IF n.value.expression.type = "TemplateLiteral"
       THEN Len(n.value.expression.expressions) >= 1
       ELSE IF n.value.expression.type = "Literal"
       THEN n.value.expression.typeofValue # "string"
       ELSE TRUE

\* C3: dynamic content is never rewritten.  In every state of the cache, the
\* visit of a dynamic className value makes no report (hence no fix) and
\* hands nothing to canonicalizeCandidates.
C3_DynamicNeverRewritten ==
    (op = "JSXAttribute" /\ dynamicClassName(node))
    => (reports = <<>> /\ called = <<>>)

\* C3 happens: a template literal with an interpolation is visited while a
\* design system with canonicalizeCandidates is loaded.
C3_Witness ==
    /\ op = "JSXAttribute"
    /\ dynamicClassName(node)
    /\ node.value.expression.type = "TemplateLiteral"
    /\ designSystemCache # Null
    /\ hasCanonicalizeCandidates(designSystemCache)
    /\ cssPathCache = ctx.cssPath

\* C4: create() without a cssPath (absent or empty) reports cssNotFound once,
\* at line 1 column 0, registers no visitor and leaves the cache and the
\* loads alone; while the file's configuration has no cssPath no JSXAttribute
\* visit runs.
C4_MissingCssPath ==
    [][/\ (op' = "create" /\ falsy(ctx'.cssPath))
          => (/\ reports' = <<CssNotFoundReport>>
              /\ ~ctx'.visitor
              /\ UNCHANGED <<cacheVars, promises>>)
       /\ falsy(ctx.cssPath) => op' # "JSXAttribute"]_vars

\* C4 happens: create() has run without a cssPath while a design system was
\* cached.
C4_Witness ==
    /\ op = "create"
    /\ ctx.cssPath = <<"">>
    /\ reports = <<CssNotFoundReport>>
    /\ designSystemCache # Null

\* C10: between two changes of the cssPath the loader is invoked at most
\* once; a step starts at most one load, and starts one only when the call
\* resets the cache or finds it with no handle, no promise and no error.
C10_LoadedAtMostOnce ==
    /\ [](loads <= 1)
    /\ [][Len(promises') > Len(promises)
          => (/\ Len(promises') = Len(promises) + 1
              /\ \/ cssPathCache' # cssPathCache
                 \/ (/\ designSystemCache = Null
                     /\ designSystemPromise = 0
                     /\ designSystemError = Null))]_vars

\* C10 happens: a static className is visited (the sync and then the async
\* lookup) while the load of the current cssPath is pending, and no load
\* starts.
C10_Witness ==
    /\ op = "JSXAttribute"
    /\ staticClassName(node)
    /\ designSystemPromise # 0
    /\ promises[designSystemPromise].state = "pending"
    /\ resolvedPath = Null
    /\ loads = 1

\* ------------------------------------------------ claims on processClasses
\* The tokens extracted from the attribute visited, the source text of its
\* value, and the tokens of the replacement text of the fix (the text between
\* its first and last character, split on white space).
visitedTokens == extractClassNames(classNameValueOf(node.value))
visitedText == getText(classNameValueOf(node.value))
fixOffered == op = "JSXAttribute" /\ reports # <<>> /\ reports[1].fixText # Null
fixedTokens ==
    filterNonEmpty(split(SubSeq(reports[1].fixText, 2, Len(reports[1].fixText) - 1)))

\* The token is the original of some report.
reported(className) == \E j \in 1..Len(reports) : reports[j].original = className

\* C5: the class list of the fix has as many tokens as the list extracted
\* from the attribute, in the same order: token i is the original token i when
\* that token was not reported, and otherwise the canonical form reported for
\* it.
C5_FixKeepsOrderAndCount ==
    fixOffered
    => (/\ Len(fixedTokens) = Len(visitedTokens)
        /\ \A i \in 1..Len(visitedTokens) :
              IF reported(visitedTokens[i])
              THEN \E j \in 1..Len(reports) :
                      /\ reports[j].original = visitedTokens[i]
                      /\ fixedTokens[i] = reports[j].canonical
              ELSE fixedTokens[i] = visitedTokens[i])

\* C5 happens: a fix is offered for a list whose first token is kept and
\* whose second token is rewritten.
C5_Witness ==
    /\ fixOffered
    /\ Len(visitedTokens) = 2
    /\ ~reported(visitedTokens[1])
    /\ reported(visitedTokens[2])
    /\ fixedTokens[2] # visitedTokens[2]

\* C6: the replacement text of a value whose source text starts with a quote
\* (double, single or backtick) starts and ends with that quote.
C6_FixKeepsQuote ==
    (fixOffered /\ visitedText[1] \in Quotes)
    => (/\ reports[1].fixText[1] = visitedText[1]
        /\ reports[1].fixText[Len(reports[1].fixText)] = visitedText[1])

\* C6 happens: a fix is offered for a string literal in single quotes that
\* spans two lines.
C6_Witness ==
    /\ fixOffered
    /\ node.value.type = "Literal"
    /\ visitedText[1] = "sq"
    /\ \E i \in 1..Len(visitedText) : visitedText[i] \in LineTerminators

\* A design system with canonicalizeCandidates was handed to the visit.
canonicalizing ==
    /\ op = "JSXAttribute"
    /\ designSystem # Null
    /\ hasCanonicalizeCandidates(designSystem)

\* Token i of the attribute visited is not canonical: canonicalizeCandidates
\* returns for it, and returns another token.
nonCanonical(i) ==
    /\ canonicalizing
    /\ ~canonicalizeThrows(visitedTokens[i])
    /\ canonicalizeCandidate(designSystem, visitedTokens[i], ctx.rootFontSize)
          # visitedTokens[i]

\* C7: a token canonicalizeCandidates throws on is not reported and stays as
\* it is in the fix, while every token of the attribute is still handed to
\* canonicalizeCandidates and every other token that is not canonical is
\* reported with its canonical form.
C7_ThrowingTokenSkipped ==
    (/\ canonicalizing
     /\ \E i \in 1..Len(visitedTokens) : canonicalizeThrows(visitedTokens[i]))
    => (/\ called = visitedTokens
        /\ \A i \in 1..Len(visitedTokens) :
              canonicalizeThrows(visitedTokens[i])
              => (/\ ~reported(visitedTokens[i])
                  /\ fixOffered => fixedTokens[i] = visitedTokens[i])
        /\ \A i \in 1..Len(visitedTokens) :
              nonCanonical(i)
              => \E j \in 1..Len(reports) :
                    /\ reports[j].original = visitedTokens[i]
                    /\ reports[j].canonical
                          = canonicalizeCandidate(designSystem, visitedTokens[i],
                                                  ctx.rootFontSize))

\* C7 happens: the first token of the attribute throws and the second one is
\* reported and rewritten.
C7_Witness ==
    /\ canonicalizing
    /\ Len(visitedTokens) = 2
    /\ canonicalizeThrows(visitedTokens[1])
    /\ reported(visitedTokens[2])
    /\ fixOffered

\* C8: with a design system loaded, a visit makes one nonCanonical report per
\* token occurrence whose canonical form differs from it, and none when there
\* is no such token; exactly the first report carries a fix, and that fix
\* writes every such token in its canonical form.
C8_OneReportPerNonCanonicalToken ==
    (op = "JSXAttribute" /\ designSystem # Null)
    => (/\ Len(reports)
              = Cardinality({i \in 1..Len(visitedTokens) : nonCanonical(i)})
        /\ \A j \in 1..Len(reports) :
              /\ reports[j].messageId = "nonCanonical"
              /\ reports[j].hasFix <=> (j = 1)
        /\ reports # <<>>
           => (/\ reports[1].fixText # Null
               /\ Len(fixedTokens) = Len(visitedTokens)
               /\ \A i \in 1..Len(visitedTokens) :
                     nonCanonical(i)
                     => fixedTokens[i]
                           = canonicalizeCandidate(designSystem, visitedTokens[i],
                                                   ctx.rootFontSize)))

\* C8 happens: the two tokens of "b ab" are both reported, the first report
\* alone carries the fix, and the fix reads "a aa".
C8_Witness ==
    /\ op = "JSXAttribute"
    /\ node = JSXAttributeNode("className", StringLiteral("dq", <<"b", "sp", "a", "b">>))
    /\ Len(reports) = 2
    /\ reports[1].fixText = <<"dq", "a", "sp", "a", "a", "dq">>
    /\ ~reports[2].hasFix

\* ------------------------------------------------ claims on the cache states
\* The load of the current cssPath is in flight: designSystemPromise is set
\* and the loader's promise behind it has not been settled.
loadInFlight ==
    /\ designSystemPromise # 0
    /\ promises[designSystemPromise].state = "pending"

\* C11: the synchronous lookup yields no result while the load of the current
\* cssPath is in flight.  A visit that leaves that load pending (the visit
\* that started it, or a later one) got null from getDesignSystemSync and
\* made no report.
C11_NoResultWhileLoading ==
    (/\ op = "JSXAttribute"
     /\ cssPathCache = ctx.cssPath
     /\ loadInFlight)
    => (designSystem = Null /\ reports = <<>>)

\* The load of the current cssPath has completed successfully: the loader's
\* promise behind designSystemPromise is fulfilled.
loadCompleted ==
    /\ designSystemPromise # 0
    /\ promises[designSystemPromise].state = "fulfilled"

\* C12: the loaded state is stable.  Once the load started for the current
\* cssPath has resolved successfully, every check of a static className made
\* while the cssPath stays the same gets the handle that load produced and
\* starts no other load.
C12_LoadedIsStable ==
    [][(/\ loadCompleted
        /\ cssPathCache = ctx.cssPath
        /\ op' = "JSXAttribute"
        /\ staticClassName(node'))
       => (/\ designSystem' = designSystemOf(promises[designSystemPromise].from)
           /\ designSystemPromise' = designSystemPromise
           /\ promises' = promises)]_vars

\* The errors a lookup for the configured cssPath can record itself (lines
\* 66 and 85), as opposed to one left by an earlier lookup.
ownErrors ==
    {<<"CSS file not found">> \o ctx.cssPath, <<"read failed">> \o resolvedPath}

\* C13: the reset happens on a change of path and only then.  A check of a
\* static className whose cssPath differs from cssPathCache leaves
\* cssPathCache at the new path, gets no handle, and leaves nothing of the
\* previous entry behind: the cache is null, the promise is null or the one
\* this call created, the error is null or the one this call recorded.  A
\* check whose cssPath equals cssPathCache clears none of the three fields.
C13_ResetOnPathChangeOnly ==
    [][(op' = "JSXAttribute" /\ staticClassName(node'))
       => IF cssPathCache # ctx.cssPath
          THEN /\ cssPathCache' = ctx.cssPath
               /\ designSystem' = Null
               /\ designSystemCache' = Null
               /\ designSystemPromise' \in {0, Len(promises) + 1}
               /\ designSystemError' # Null
                  => (designSystemPromise' = 0 /\ designSystemError' \in ownErrors')
          ELSE /\ cssPathCache' = cssPathCache
               /\ designSystemCache # Null => designSystemCache' = designSystemCache
               /\ designSystemPromise # 0 => designSystemPromise' = designSystemPromise
               /\ designSystemError # Null => designSystemError' = designSystemError]_vars

\* A check has just reset an entry that held a loaded handle and started the
\* load for the new cssPath.
C13_Witness ==
    /\ op = "JSXAttribute"
    /\ staticClassName(node)
    /\ Len(promises) = 2
    /\ promises[1].state = "fulfilled"
    /\ designSystemPromise = 2
    /\ promises[2].state = "pending"
    /\ designSystemCache = Null
    /\ designSystem = Null

\* C14: stale loads are isolated.  What a check observes for the configured
\* cssPath comes from the load started for it and from no earlier one: a
\* handle it gets is the handle of the stylesheet behind the current
\* designSystemPromise, and a loader failure recorded in designSystemError is
\* the rejection of the current designSystemPromise.
C14_StaleLoadIsolated ==
    /\ (op = "JSXAttribute" /\ designSystem # Null)
       => (/\ designSystemPromise # 0
           /\ designSystem = designSystemOf(promises[designSystemPromise].from))
    /\ (designSystemError # Null /\ Head(designSystemError) = "load failed")
       => (/\ designSystemPromise # 0
           /\ promises[designSystemPromise].state = "rejected"
           /\ designSystemError = <<"load failed">> \o promises[designSystemPromise].from)

\* C15: the states of the cache entry are exclusive.  designSystemCache and
\* designSystemError are never both set, a set designSystemCache comes with a
\* set designSystemPromise, and any of the three being set comes with a set
\* cssPathCache.
C15_CacheStatesExclusive ==
    /\ ~(designSystemCache # Null /\ designSystemError # Null)
    /\ designSystemCache # Null => designSystemPromise # 0
    /\ (designSystemCache # Null \/ designSystemPromise # 0 \/ designSystemError # Null)
       => cssPathCache # Null

\* The class tokens of at most MaxLen characters.
Tokens == UNION {[1..k -> ClassChars] : k \in 1..MaxLen}

\* The assumptions of C16 on canonicalizeCandidates for the handle ds at rem:
\* for every token it returns for, the result is not empty, and the result is
\* returned unchanged (canonicalizeCandidate is an operator, hence
\* deterministic).
canonicalizeConverges(ds, rem) ==
    \A t \in Tokens :
        ~canonicalizeThrows(t)
        => LET c == canonicalizeCandidate(ds, t, rem)
           IN /\ c # <<>>
              /\ canonicalizeCandidate(ds, c, rem) = c

\* C16: the fix converges.  With the design system still loaded and
\* canonicalizeCandidates idempotent on its results, the check of the
\* attribute to which the fix has been applied makes no report.
C16_FixConverges ==
    (/\ op = "fixed"
     /\ designSystem # Null
     /\ hasCanonicalizeCandidates(designSystem)
     /\ canonicalizeConverges(designSystem, ctx.rootFontSize))
    => reports = <<>>

\* The fix has been applied and the check of the fixed attribute has passed
\* a repeated token to canonicalizeCandidates.
C16_Witness ==
    /\ op = "fixed"
    /\ designSystem # Null
    /\ hasCanonicalizeCandidates(designSystem)
    /\ canonicalizeConverges(designSystem, ctx.rootFontSize)
    /\ Len(called) >= 2
    /\ called[1] = called[2]
    /\ reports = <<>>

====
